---- MODULE Spec2Model ----
(***************************************************************************)
(* A model of the object-resolution and range-addressing core of xlwings   *)
(* (src/xlwings/main.py): Workbook.__init__ (the document resolver),       *)
(* Workbook.active / activate, the Range constructor, Range.__getitem__,   *)
(* Range.value, Range.table / vertical / horizontal, and Sheets.add /      *)
(* __delitem__.  The automation layer (xlplatform) is not part of the      *)
(* source file; the few host operations the core calls are modelled from   *)
(* the specification and are marked as such where they are defined.        *)
(***************************************************************************)
EXTENDS Integers, Sequences, FiniteSets, TLC

VARIABLES
    apps,      \* the running application instances, in enumeration order;
               \* each is the set of workbooks open in it
    disk,      \* the file paths that exist on disk
    wbres,     \* outcome of the last Workbook(fullname) call
    cells,     \* content of the sheet window: cells[r][c] is a cell kind
    active,    \* name of the active sheet of the active workbook
    rng,       \* the Range object the indexing / expansion calls are made on
    out,       \* the last Range operation: its arguments and its outcome
    activeBook, \* per application instance, the workbook that is active in it
    focus,     \* the (instance, workbook) of the last wb.activate() call, as
               \* long as nothing else has moved the focus since
    pids,      \* the host's identifier of each running instance, in
               \* enumeration order
    options,   \* the options bag of the Range object rng
    values,    \* the cell values the host holds, per sheet and cell
    alias,     \* a second Range object
    sheets,    \* the names of the sheets of the active workbook, in order
    parked,    \* the active sheet of the workbook that is not the active one
    home,      \* history: the sheet that was active when rng was built and
               \* the columns of row 1 its arguments name
    written,   \* history: per sheet and cell, the data of the last write
               \* made to the cell through a Range object
    cached     \* history: the cell values the host held when the latest
               \* Range object was built

viewVars == <<parked, home, written, cached>>
objVars == <<options, values, alias, sheets, viewVars>>
vars == <<apps, disk, wbres, cells, active, rng, out, activeBook, focus, pids, objVars>>
hostVars == <<apps, disk, wbres, activeBook, focus, pids>>
rangeVars == <<cells, active, rng, out, objVars>>

(***************************************************************************)
(* Strings.  A string is a sequence of one-character strings, so that      *)
(* str.lower() can be modelled character by character.                     *)
(***************************************************************************)
LowerChar(c) ==
    CASE c = "A" -> "a"
      [] c = "B" -> "b"
      [] c = "D" -> "d"
      [] c = "S" -> "s"
      [] OTHER -> c

Lower(s) == [i \in DOMAIN s |-> LowerChar(s[i])]

(***************************************************************************)
(* Workbooks and application instances.                                    *)
(***************************************************************************)
MaxApps == 2
MaxBooks == 2

BookNames == {<<"a">>, <<"A">>}
Dir == <<"d", "/">>

\* An open workbook: display name and full path (fullname = name when the
\* workbook has never been saved).
Books ==
    {[name |-> n, fullname |-> n] : n \in BookNames}
        \cup {[name |-> n, fullname |-> Dir \o n] : n \in BookNames}

DiskPaths == {Dir \o n : n \in BookNames}

\* The identifiers Workbook(fullname) is called with.
Idents ==
    BookNames \cup DiskPaths \cup {<<"b">>, <<"D", "/", "A">>, <<"D", "/", "a">>}

NoBook == [name |-> <<>>, fullname |-> <<>>]
\* The outcome of a Workbook(fullname) call: kind is "workbook" or the
\* failure, msg the message template of the exception and fmt the strings
\* formatted into it.
WbRes(kind, ident, app, wb, msg, fmt) ==
    [kind |-> kind, ident |-> ident, app |-> app, wb |-> wb, msg |-> msg, fmt |-> fmt]

NoResult == WbRes("none", <<>>, 0, NoBook, "", <<>>)

NoFocus == [app |-> 0, wb |-> NoBook]

\* os.path.isfile
isfile(path) == path \in disk

\* Applications.active running the loop to its end: the last instance of the
\* enumeration
ActiveApp_last_enumerated == Len(apps)

\* Applications.active: the first instance of the enumeration, or None (0).
ActiveApp == IF Len(apps) > 0 THEN 1 ELSE 0

\* a sequence without its element at position i
Without(seq, i) ==
    [j \in 1..(Len(seq) - 1) |-> IF j < i THEN seq[j] ELSE seq[j + 1]]

\* The enumeration of the instances after instance i has been given the
\* focus: the host lists the instance that had the focus last in front.
FocusFirst(seq, i) == <<seq[i]>> \o Without(seq, i)

\* an identifier no running instance has
FreshPid == CHOOSE p \in 1..MaxApps : \A j \in DOMAIN pids : pids[j] # p

\* The (instance, workbook) pairs collected by the scan of Workbook.__init__;
\* fullname has already been lower-cased.
Candidates(fullname) ==
    {<<i, wb>> \in (DOMAIN apps) \X Books :
        /\ wb \in apps[i]
        /\ (Lower(wb.fullname) = fullname \/ Lower(wb.name) = fullname)}

\* The workbook the host reports after opening the file at path.
OpenedBook(path) ==
    [name |-> SubSeq(path, Len(Dir) + 1, Len(path)), fullname |-> path]

\* Workbook(fullname) with a non-empty fullname.
WorkbookInit(ident) ==
    LET fullname == Lower(ident)
        candidates == Candidates(fullname)
    IN  IF Cardinality(candidates) = 0
        THEN IF isfile(fullname)
             THEN IF ActiveApp = 0
                  THEN \* active.app is None: None.workbooks
                       /\ wbres' = WbRes("AttributeError", ident, 0, NoBook,
                                         "'NoneType' object has no attribute 'workbooks'",
                                         <<>>)
                       /\ UNCHANGED <<apps, activeBook, focus, pids>>
                  ELSE /\ wbres' = WbRes("workbook", ident, ActiveApp,
                                         OpenedBook(fullname), "", <<>>)
                       /\ apps' = [apps EXCEPT ![ActiveApp] =
                                       @ \cup {OpenedBook(fullname)}]
                       /\ activeBook' = [activeBook EXCEPT ![ActiveApp] =
                                             OpenedBook(fullname)]
                       /\ focus' = NoFocus
                       /\ UNCHANGED pids
             ELSE /\ wbres' = WbRes("NotFound", ident, 0, NoBook,
                                    "Could not connect to workbook '%s'", <<fullname>>)
                  /\ UNCHANGED <<apps, activeBook, focus, pids>>
        ELSE IF Cardinality(candidates) > 1
        THEN /\ wbres' = WbRes("Ambiguous", ident, 0, NoBook,
                               "Workbook '%s' is open in more than one Excel instance.",
                               <<fullname>>)
             /\ UNCHANGED <<apps, activeBook, focus, pids>>
        ELSE LET c == CHOOSE x \in candidates : TRUE
             IN  /\ wbres' = WbRes("workbook", ident, c[1], c[2], "", <<>>)
                 /\ UNCHANGED <<apps, activeBook, focus, pids>>

NewWorkbook ==
    /\ \E ident \in Idents : WorkbookInit(ident)
    /\ UNCHANGED <<disk, rangeVars>>

\* Host side: an application instance is started.
StartApp ==
    /\ Len(apps) < MaxApps
    /\ apps' = Append(apps, {})
    /\ activeBook' = Append(activeBook, NoBook)
    /\ pids' = Append(pids, FreshPid)
    /\ focus' = NoFocus
    /\ UNCHANGED <<disk, wbres, rangeVars>>

\* Host side: an application instance quits.
QuitApp ==
    /\ \E i \in DOMAIN apps :
          /\ apps' = Without(apps, i)
          /\ activeBook' = Without(activeBook, i)
          /\ pids' = Without(pids, i)
    /\ focus' = NoFocus
    /\ UNCHANGED <<disk, wbres, rangeVars>>

\* Host side: a workbook is opened in (or added to) an instance and becomes
\* the active workbook of that instance.
OpenIn(books) ==
    /\ \E i \in DOMAIN apps, wb \in books :
          /\ wb \notin apps[i]
          /\ Cardinality(apps[i]) < MaxBooks
          /\ apps' = [apps EXCEPT ![i] = @ \cup {wb}]
          /\ activeBook' = [activeBook EXCEPT ![i] = wb]
    /\ focus' = NoFocus
    /\ UNCHANGED <<disk, wbres, pids, rangeVars>>

OpenBook == OpenIn(Books)

\* The workbooks that have never been saved.
NewBooks == {wb \in Books : wb.fullname = wb.name}

\* Host side: a new workbook is added to an instance.
AddBook == OpenIn(NewBooks)

\* the active workbook of an instance after wb has been closed in it
AfterClose(open, current, wb) ==
    IF current # wb THEN current
    ELSE IF open \ {wb} = {} THEN NoBook
    ELSE CHOOSE b \in open \ {wb} : TRUE

\* Host side: a workbook is closed.
CloseBook ==
    /\ \E i \in DOMAIN apps, wb \in Books :
          /\ wb \in apps[i]
          /\ apps' = [apps EXCEPT ![i] = @ \ {wb}]
          /\ activeBook' = [activeBook EXCEPT ![i] = AfterClose(apps[i], @, wb)]
    /\ focus' = NoFocus
    /\ UNCHANGED <<disk, wbres, pids, rangeVars>>

\* wb.activate(): self.application.activate() gives the instance of wb the
\* focus, which moves it to the front of the host's enumeration, and the
\* host's activate() of the workbook makes wb the active workbook of that
\* instance.
Activate ==
    /\ \E i \in DOMAIN apps, wb \in Books :
          /\ wb \in apps[i]
          /\ apps' = FocusFirst(apps, i)
          /\ pids' = FocusFirst(pids, i)
          /\ activeBook' = FocusFirst([activeBook EXCEPT ![i] = wb], i)
          /\ focus' = [app |-> pids[i], wb |-> wb]
    /\ UNCHANGED <<disk, wbres, rangeVars>>

\* Workbook.active(): applications.active.active_workbook
WorkbookActive ==
    /\ wbres' = IF ActiveApp = 0
                THEN WbRes("AttributeError", <<>>, 0, NoBook,
                           "'NoneType' object has no attribute 'active_workbook'", <<>>)
                ELSE WbRes("active", <<>>, ActiveApp, activeBook[ActiveApp], "", <<>>)
    /\ UNCHANGED <<apps, disk, activeBook, focus, pids, rangeVars>>

(***************************************************************************)
(* The host's cell grid.  Rows and columns are 1-based.  The model keeps   *)
(* the content of a window of SheetRows x SheetCols cells of the sheet     *)
(* named DataSheet; every cell outside the window, and every cell of any   *)
(* other sheet, is blank.                                                  *)
(***************************************************************************)
SheetRows == 5
SheetCols == 5

CellKinds == {"blank", "emptystr", "formula", "value"}
SheetNames == << <<"S", "1">>, <<"S", "2">> >>
DataSheet == SheetNames[1]
ErrSheet == <<"#">>

\* A Range is a view: the sheet it is bound to and the rectangle it covers.
Rng(sh, top, left, rows, cols) ==
    [sheet |-> sh, top |-> top, left |-> left, rows |-> rows, cols |-> cols]

\* Stands for the failure the host raises when asked for a cell that does not
\* exist (row or column below 1).
HostErr == Rng(ErrSheet, 0, 0, 0, 0)
IsErr(r) == r.sheet = ErrSheet

KindAt(sh, r, c) ==
    IF sh = DataSheet /\ r \in 1..SheetRows /\ c \in 1..SheetCols
    THEN cells[r][c]
    ELSE "blank"

\* Range.raw_value of a single cell: None for a blank cell, the empty string
\* for an empty-string constant and for a formula that evaluates to blank.
raw_value(cell) ==
    LET k == KindAt(cell.sheet, cell.top, cell.left)
    IN  CASE k = "blank" -> "None"
          [] k = "value" -> "x"
          [] OTHER -> ""

Min(a, b) == IF a <= b THEN a ELSE b
Max(a, b) == IF a >= b THEN a ELSE b

Cell(sh, r, c) == IF r < 1 \/ c < 1 THEN HostErr ELSE Rng(sh, r, c, 1, 1)

\* rng(r, c): the cell at 1-based position (r, c) relative to the top-left
\* cell of rng; the position may lie outside rng.
Item2(r0, r, c) ==
    IF IsErr(r0) THEN HostErr
    ELSE Cell(r0.sheet, r0.top + r - 1, r0.left + c - 1)

\* rng(i): the i-th cell (1-based) of rng in row-major order.
Item1(r0, i) ==
    IF IsErr(r0) THEN HostErr
    ELSE Cell(r0.sheet, r0.top + ((i - 1) \div r0.cols), r0.left + ((i - 1) % r0.cols))

\* len(rng)
Count(r0) == r0.rows * r0.cols

\* worksheet.range(a, b): the smallest rectangle that contains a and b.
SheetRange(a, b) ==
    IF IsErr(a) \/ IsErr(b) THEN HostErr
    ELSE LET top == Min(a.top, b.top)
             left == Min(a.left, b.left)
             bottom == Max(a.top + a.rows - 1, b.top + b.rows - 1)
             right == Max(a.left + a.cols - 1, b.left + b.cols - 1)
         IN  Rng(a.sheet, top, left, bottom - top + 1, right - left + 1)

\* The emptiness test of the directional scan: a literal blank and an
\* empty-string constant are empty, a formula that evaluates to blank is not.
ScanEmpty(sh, r, c) == KindAt(sh, r, c) \in {"blank", "emptystr"}

\* cell.end('down') / cell.end('right'): the last cell of the run of
\* contiguous non-empty cells that starts at cell.
RECURSIVE EndDownRow(_, _, _)
EndDownRow(sh, r, c) ==
    IF r > SheetRows \/ ScanEmpty(sh, r + 1, c) THEN r ELSE EndDownRow(sh, r + 1, c)

RECURSIVE EndRightCol(_, _, _)
EndRightCol(sh, r, c) ==
    IF c > SheetCols \/ ScanEmpty(sh, r, c + 1) THEN c ELSE EndRightCol(sh, r, c + 1)

EndDown(cell) ==
    IF IsErr(cell) THEN HostErr
    ELSE Cell(cell.sheet, EndDownRow(cell.sheet, cell.top, cell.left), cell.left)

EndRight(cell) ==
    IF IsErr(cell) THEN HostErr
    ELSE Cell(cell.sheet, cell.top, EndRightCol(cell.sheet, cell.top, cell.left))

(***************************************************************************)
(* Outcomes.  An operation ends with a Range or with an exception; kind is *)
(* "Range" or the exception class, msg the message template, index and     *)
(* count the values formatted into the message.                            *)
(***************************************************************************)
Res(kind, msg, rg, index, count) ==
    [kind |-> kind, msg |-> msg, rg |-> rg, index |-> index, count |-> count]

Raise(kind, msg) == Res(kind, msg, HostErr, 0, 0)
Ok(rg) == IF IsErr(rg) THEN Raise("HostError", "") ELSE Res("Range", "", rg, 0, 0)

(***************************************************************************)
(* Address strings as the host reads them: a column letter and a row       *)
(* digit, or two such cells joined by a colon.                             *)
(***************************************************************************)
ColLetters == <<"A", "B", "C", "D", "E", "F", "G", "H", "I">>
RowDigits == <<"1", "2", "3", "4", "5", "6", "7", "8", "9">>

IndexIn(seq, ch) ==
    IF \E i \in DOMAIN seq : seq[i] = ch
    THEN CHOOSE i \in DOMAIN seq : seq[i] = ch
    ELSE 0

ParseCell(sh, s) == Cell(sh, IndexIn(RowDigits, s[2]), IndexIn(ColLetters, s[1]))

ParseAddress(sh, s) ==
    IF Len(s) = 2 THEN ParseCell(sh, s)
    ELSE IF Len(s) = 5 /\ s[3] = ":"
    THEN SheetRange(ParseCell(sh, SubSeq(s, 1, 2)), ParseCell(sh, SubSeq(s, 4, 5)))
    ELSE HostErr

(***************************************************************************)
(* Range.__init__ and its positional arguments: a string, a tuple of       *)
(* two integers, an integer, a Range or a Sheet.                            *)
(***************************************************************************)
StrArg(s) == [t |-> "str", s |-> s, r |-> 0, c |-> 0, rg |-> HostErr]
TupArg(r, c) == [t |-> "tuple", s |-> <<>>, r |-> r, c |-> c, rg |-> HostErr]
IntArg(n) == [t |-> "int", s |-> <<>>, r |-> n, c |-> 0, rg |-> HostErr]
RngArg(rg) == [t |-> "Range", s |-> <<>>, r |-> 0, c |-> 0, rg |-> rg]
SheetArg(name) == [t |-> "Sheet", s |-> name, r |-> 0, c |-> 0, rg |-> HostErr]

\* Sheet(name_or_index): a sheet of the active workbook, by name or by
\* 1-based index.
SheetOf(arg) ==
    CASE arg.t = "Sheet" -> arg.s
      [] arg.t = "int" -> IF arg.r \in DOMAIN sheets THEN sheets[arg.r] ELSE ErrSheet
      [] arg.t = "str" -> IF \E i \in DOMAIN sheets : sheets[i] = arg.s
                          THEN arg.s ELSE ErrSheet
      [] OTHER -> ErrSheet

\* sheet.range applied to a spec of one string, one tuple or two tuples.
SheetRangeSpec(sh, spec) ==
    IF sh = ErrSheet THEN HostErr
    ELSE IF Len(spec) = 2
    THEN SheetRange(Cell(sh, spec[1].r, spec[1].c), Cell(sh, spec[2].r, spec[2].c))
    ELSE IF spec[1].t = "tuple" THEN Cell(sh, spec[1].r, spec[1].c)
    ELSE ParseAddress(sh, spec[1].s)

\* the zero test looking at the row only
ZeroIn_row_only(tup) == tup.r = 0

ZeroIn(tup) == tup.r = 0 \/ tup.c = 0

\* the constructor taking the last two tuples as corners only behind a sheet
RangeInit_corners_after_sheet(args) ==
    LET n == Len(args) IN
    IF n = 2 /\ args[1].t = "Range" /\ args[2].t = "Range"
    THEN Ok(SheetRange(args[1].rg, args[2].rg))
    ELSE IF n = 1 /\ args[1].t = "str"
    THEN Ok(ParseAddress(active, args[1].s))
    ELSE IF 0 < n /\ n <= 3
    THEN IF args[n].t \notin {"tuple", "str"}
         THEN Raise("UnboundLocalError", "")
         ELSE LET spec == IF args[n].t = "tuple" /\ n > 2 /\ args[n - 1].t = "tuple"
                          THEN <<args[n - 1], args[n]>>
                          ELSE <<args[n]>>
                  residual_args == SubSeq(args, 1, n - Len(spec))
              IN  IF args[n].t = "tuple" /\ \E i \in DOMAIN spec : ZeroIn(spec[i])
                  THEN Raise("IndexError",
                             "Attempted to access 0-based Range. xlwings/Excel Ranges are 1-based.")
                  ELSE IF Len(residual_args) > 1
                  THEN Raise("ValueError", "Invalid arguments")
                  ELSE LET sheet == IF Len(residual_args) = 1
                                    THEN SheetOf(residual_args[1])
                                    ELSE active
                       IN  Ok(SheetRangeSpec(sheet, spec))
    ELSE Raise("ValueError", "Invalid arguments")

RangeInit(args) ==
    LET n == Len(args) IN
    IF n = 2 /\ args[1].t = "Range" /\ args[2].t = "Range"
    THEN Ok(SheetRange(args[1].rg, args[2].rg))
    ELSE IF n = 1 /\ args[1].t = "str"
    THEN Ok(ParseAddress(active, args[1].s))
    ELSE IF 0 < n /\ n <= 3
    THEN IF args[n].t \notin {"tuple", "str"}
         THEN \* spec is never bound: the slice by len(spec) fails
              Raise("UnboundLocalError", "")
         ELSE LET spec == IF args[n].t = "tuple" /\ n > 1 /\ args[n - 1].t = "tuple"
                          THEN <<args[n - 1], args[n]>>
                          ELSE <<args[n]>>
                  residual_args == SubSeq(args, 1, n - Len(spec))
              IN  IF args[n].t = "tuple" /\ \E i \in DOMAIN spec : ZeroIn(spec[i])
                  THEN Raise("IndexError",
                             "Attempted to access 0-based Range. xlwings/Excel Ranges are 1-based.")
                  ELSE IF Len(residual_args) > 1
                  THEN Raise("ValueError", "Invalid arguments")
                  ELSE LET sheet == IF Len(residual_args) = 1
                                    THEN SheetOf(residual_args[1])
                                    ELSE active
                       IN  Ok(SheetRangeSpec(sheet, spec))
    ELSE Raise("ValueError", "Invalid arguments")

\* Range(a, b) for two Range objects, as the methods below call it.
RangeOf(a, b) == RangeInit(<<RngArg(a), RngArg(b)>>)

(***************************************************************************)
(* Range.__getitem__(key).  key is an integer, a slice, or a tuple         *)
(* (row, col) whose parts are integers or slices.  A slice part that was   *)
(* not given is None.                                                      *)
(***************************************************************************)
None == [some |-> FALSE, v |-> 0]
Some(v) == [some |-> TRUE, v |-> v]

IntIdx(v) == [slice |-> FALSE, v |-> v, start |-> None, stop |-> None, step |-> None]
SliceIdx(start, stop, step) ==
    [slice |-> TRUE, v |-> 0, start |-> start, stop |-> stop, step |-> step]

IntKey(i) == [t |-> "int", row |-> IntIdx(i), col |-> IntIdx(0)]
SliceKey(start, stop, step) ==
    [t |-> "slice", row |-> SliceIdx(start, stop, step), col |-> IntIdx(0)]
TupleKey(row, col) == [t |-> "tuple", row |-> row, col |-> col]

\* the tuple branch checking the step of the row slice only
GetItemTuple_row_step_only(self, row, col) ==
    IF row.slice /\ row.step.some
    THEN Raise("ValueError", "Slice steps not supported.")
    ELSE LET row1 == IF row.slice
                     THEN (IF row.start.some THEN row.start.v ELSE 0)
                     ELSE row.v
             row2 == IF row.slice
                     THEN (IF row.stop.some THEN row.stop.v - 1 ELSE self.rows - 1)
                     ELSE row.v
             col1 == IF col.slice
                     THEN (IF col.start.some THEN col.start.v ELSE 0)
                     ELSE col.v
             col2 == IF col.slice
                     THEN (IF col.stop.some THEN col.stop.v - 1 ELSE self.cols - 1)
                     ELSE col.v
         IN  IF col1 = col2 /\ row1 = row2
             THEN Ok(Item2(self, row1 + 1, col1 + 1))
             ELSE Ok(SheetRange(Item2(self, row1 + 1, col1 + 1),
                                Item2(self, row2 + 1, col2 + 1)))

\* the tuple branch taking the stop of a row slice as its last row
GetItemTuple_stop_inclusive(self, row, col) ==
    IF (row.slice /\ row.step.some) \/ (col.slice /\ col.step.some)
    THEN Raise("ValueError", "Slice steps not supported.")
    ELSE LET row1 == IF row.slice
                     THEN (IF row.start.some THEN row.start.v ELSE 0)
                     ELSE row.v
             row2 == IF row.slice
                     THEN (IF row.stop.some THEN row.stop.v ELSE self.rows - 1)
                     ELSE row.v
             col1 == IF col.slice
                     THEN (IF col.start.some THEN col.start.v ELSE 0)
                     ELSE col.v
             col2 == IF col.slice
                     THEN (IF col.stop.some THEN col.stop.v - 1 ELSE self.cols - 1)
                     ELSE col.v
         IN  IF col1 = col2 /\ row1 = row2
             THEN Ok(Item2(self, row1 + 1, col1 + 1))
             ELSE Ok(SheetRange(Item2(self, row1 + 1, col1 + 1),
                                Item2(self, row2 + 1, col2 + 1)))

\* the tuple branch taking the parts of the key as (col, row)
GetItemTuple_transposed(self, row, col) ==
    LET row1 == col.v
        col1 == row.v
    IN  IF row.slice \/ col.slice
        THEN Raise("ValueError", "Slice steps not supported.")
        ELSE Ok(Item2(self, row1 + 1, col1 + 1))

\* the branch taken for a tuple key
GetItemTuple(self, row, col) ==
    IF row.slice /\ row.step.some
    THEN Raise("ValueError", "Slice steps not supported.")
    ELSE IF col.slice /\ col.step.some
    THEN Raise("ValueError", "Slice steps not supported.")
    ELSE LET row1 == IF row.slice
                     THEN (IF row.start.some THEN row.start.v ELSE 0)
                     ELSE row.v
             row2 == IF row.slice
                     THEN (IF row.stop.some THEN row.stop.v - 1 ELSE self.rows - 1)
                     ELSE row.v
             col1 == IF col.slice
                     THEN (IF col.start.some THEN col.start.v ELSE 0)
                     ELSE col.v
             col2 == IF col.slice
                     THEN (IF col.stop.some THEN col.stop.v - 1 ELSE self.cols - 1)
                     ELSE col.v
         IN  IF col1 = col2 /\ row1 = row2
             THEN Ok(Item2(self, row1 + 1, col1 + 1))
             ELSE Ok(SheetRange(Item2(self, row1 + 1, col1 + 1),
                                Item2(self, row2 + 1, col2 + 1)))

\* the branch taken for a slice key
GetItemSlice(self, key) ==
    IF key.step.some
    THEN Raise("ValueError", "Slice steps not supported.")
    ELSE LET l == Count(self)
             startBad == key.start.some /\ (key.start.v >= l \/ key.start.v < -l)
             start == IF ~key.start.some THEN 0
                      ELSE IF key.start.v < 0 THEN l + key.start.v
                      ELSE key.start.v
             stopBad == key.stop.some /\ (key.stop.v > l \/ key.stop.v <= -l)
             stop == IF ~key.stop.some THEN l
                     ELSE IF key.stop.v < 0 THEN l + key.stop.v
                     ELSE key.stop.v
         IN  IF startBad
             THEN Res("IndexError", "Start index %s out of range (%s elements).",
                      HostErr, key.start.v, l)
             ELSE IF stopBad
             THEN Res("IndexError", "Stop index %s out of range (%s elements).",
                      HostErr, key.stop.v, l)
             ELSE RangeOf(Item1(self, start + 1), Item1(self, stop))

\* the integer branch resolving a negative key without the + 1
GetItemInt_negative_short(self, key) ==
    LET l == Count(self) IN
    IF key >= l
    THEN Res("IndexError", "Index %s out of range (%s elements).", HostErr, key, l)
    ELSE IF key < 0
    THEN IF key < -l
         THEN Res("IndexError", "Index %s out of range (%s elements).", HostErr, key, l)
         ELSE Ok(Item1(self, l + key))
    ELSE Ok(Item1(self, key + 1))

\* the branch taken for an integer key
GetItemInt(self, key) ==
    LET l == Count(self) IN
    IF key >= l
    THEN Res("IndexError", "Index %s out of range (%s elements).", HostErr, key, l)
    ELSE IF key < 0
    THEN IF key < -l
         THEN Res("IndexError", "Index %s out of range (%s elements).", HostErr, key, l)
         ELSE Ok(Item1(self, l + key + 1))
    ELSE Ok(Item1(self, key + 1))

GetItem(self, key) ==
    CASE key.t = "tuple" -> GetItemTuple(self, key.row, key.col)
      [] key.t = "slice" -> GetItemSlice(self, key.row)
      [] OTHER -> GetItemInt(self, key.row.v)

\* The options bag of a Range object: the keyword arguments it was built
\* with, as a set of (keyword, value) pairs.
NoOptions == {}
OptionBags == {NoOptions, {<<"asarray", "True">>}}

\* The options of the Range that self(row, col) or self.worksheet.range(a, b)
\* returns.
CallOptions(self_options) == self_options

\* The options of the Range that self[key] returns.  The slice branch ends in
\* Range(a, b), called with no keyword argument.
GetItemOptions(self_options, key) ==
    IF key.t = "slice" THEN NoOptions ELSE CallOptions(self_options)

(***************************************************************************)
(* Range.options, Range.resize and Range.offset.  An argument that was not *)
(* given is None.                                                          *)
(***************************************************************************)
\* The options of the Range that self.options(**self._options) returns: the
\* bag of self, with convert set to None when the bag has no convert.
OptionsCall(self_options) ==
    IF \E p \in self_options : p[1] = "convert"
    THEN self_options
    ELSE self_options \cup {<<"convert", "None">>}

\* resize without the test of the column size
resize_no_column_check(self, row_size, column_size) ==
    IF row_size.some /\ ~(row_size.v > 0)
    THEN Raise("AssertionError", "")
    ELSE LET rows == IF row_size.some THEN row_size.v ELSE self.rows
             cols == IF column_size.some THEN column_size.v ELSE self.cols
         IN  RangeOf(Item2(self, 1, 1), Item2(self, rows, cols))

resize(self, row_size, column_size) ==
    IF row_size.some /\ ~(row_size.v > 0)
    THEN Raise("AssertionError", "")
    ELSE IF column_size.some /\ ~(column_size.v > 0)
    THEN Raise("AssertionError", "")
    ELSE LET rows == IF row_size.some THEN row_size.v ELSE self.rows
             cols == IF column_size.some THEN column_size.v ELSE self.cols
         IN  RangeOf(Item2(self, 1, 1), Item2(self, rows, cols))

\* offset with the far corner left where it is
offset_far_corner_fixed(self, row_offset, column_offset) ==
    RangeOf(Item2(self, row_offset + 1, column_offset + 1),
            Item2(self, self.rows, self.cols))

offset(self, row_offset, column_offset) ==
    RangeOf(Item2(self, row_offset + 1, column_offset + 1),
            Item2(self, row_offset + self.rows, column_offset + self.cols))

(***************************************************************************)
(* Range.table, Range.vertical, Range.horizontal.                          *)
(***************************************************************************)
\* raw_value in [None, ""]
ProbeEmpty(cell) == raw_value(cell) \in {"None", ""}

\* table with the first downward probe looking at the right neighbour
table_probe_swapped(self) ==
    LET origin == Item2(self, 1, 1)
        bottom_left ==
            IF ProbeEmpty(Item2(origin, 1, 2)) THEN origin
            ELSE IF ProbeEmpty(Item2(origin, 3, 1)) THEN Item2(origin, 2, 1)
            ELSE EndDown(Item2(origin, 2, 1))
        top_right ==
            IF ProbeEmpty(Item2(origin, 1, 2)) THEN origin
            ELSE IF ProbeEmpty(Item2(origin, 1, 3)) THEN Item2(origin, 1, 2)
            ELSE EndRight(Item2(origin, 1, 2))
    IN  RangeOf(top_right, bottom_left)

\* table with the first downward probe looking at the cell diagonally below
table_diagonal_probe(self) ==
    LET origin == Item2(self, 1, 1)
        bottom_left ==
            IF ProbeEmpty(Item2(origin, 2, 2)) THEN origin
            ELSE IF ProbeEmpty(Item2(origin, 3, 1)) THEN Item2(origin, 2, 1)
            ELSE EndDown(Item2(origin, 2, 1))
        top_right ==
            IF ProbeEmpty(Item2(origin, 1, 2)) THEN origin
            ELSE IF ProbeEmpty(Item2(origin, 1, 3)) THEN Item2(origin, 1, 2)
            ELSE EndRight(Item2(origin, 1, 2))
    IN  RangeOf(top_right, bottom_left)

table(self) ==
    LET origin == Item2(self, 1, 1)
        bottom_left ==
            IF ProbeEmpty(Item2(origin, 2, 1)) THEN origin
            ELSE IF ProbeEmpty(Item2(origin, 3, 1)) THEN Item2(origin, 2, 1)
            ELSE EndDown(Item2(origin, 2, 1))
        top_right ==
            IF ProbeEmpty(Item2(origin, 1, 2)) THEN origin
            ELSE IF ProbeEmpty(Item2(origin, 1, 3)) THEN Item2(origin, 1, 2)
            ELSE EndRight(Item2(origin, 1, 2))
    IN  RangeOf(top_right, bottom_left)

\* vertical with end_row computed without the + 1
vertical_end_row_short(self) ==
    IF ProbeEmpty(Item2(self, 2, 1))
    THEN RangeOf(Item2(self, 1, 1), Item2(self, 1, self.cols))
    ELSE IF ProbeEmpty(Item2(self, 3, 1))
    THEN RangeOf(Item2(self, 1, 1), Item2(self, 2, self.cols))
    ELSE LET end_row == EndDown(Item2(self, 2, 1)).top - self.top
         IN  RangeOf(Item2(self, 1, 1), Item2(self, end_row, self.cols))

vertical(self) ==
    IF ProbeEmpty(Item2(self, 2, 1))
    THEN RangeOf(Item2(self, 1, 1), Item2(self, 1, self.cols))
    ELSE IF ProbeEmpty(Item2(self, 3, 1))
    THEN RangeOf(Item2(self, 1, 1), Item2(self, 2, self.cols))
    ELSE LET end_row == EndDown(Item2(self, 2, 1)).top - self.top + 1
         IN  RangeOf(Item2(self, 1, 1), Item2(self, end_row, self.cols))

\* horizontal without the probe of the right neighbour
horizontal_no_first_probe(self) ==
    IF ProbeEmpty(Item2(self, 1, 3))
    THEN RangeOf(Item2(self, 1, 1), Item2(self, self.rows, 2))
    ELSE LET end_column == EndRight(Item2(self, 1, 2)).left - self.left + 1
         IN  RangeOf(Item2(self, 1, 1), Item2(self, self.rows, end_column))

horizontal(self) ==
    IF ProbeEmpty(Item2(self, 1, 2))
    THEN RangeOf(Item2(self, 1, 1), Item2(self, self.rows, 1))
    ELSE IF ProbeEmpty(Item2(self, 1, 3))
    THEN RangeOf(Item2(self, 1, 1), Item2(self, self.rows, 2))
    ELSE LET end_column == EndRight(Item2(self, 1, 2)).left - self.left + 1
         IN  RangeOf(Item2(self, 1, 1), Item2(self, self.rows, end_column))

(***************************************************************************)
(* Specification Spec: workbooks are opened and closed in several          *)
(* application instances, and Workbook(fullname) is called in between.     *)
(***************************************************************************)
NoOut == [op |-> "none"]
BlankCells == [r \in 1..SheetRows |-> [c \in 1..SheetCols |-> "blank"]]

\* every cell of every sheet is blank
NoValues == [sh \in {} |-> <<>>]

\* the sheets of the second workbook of the instance
OtherSheets == << <<"T", "1">> >>

NoHome == [sheet |-> ErrSheet, left |-> 0, right |-> 0]

\* the second workbook stays in the background and no Range is read or
\* written
IdleView ==
    /\ parked = OtherSheets[1]
    /\ home = NoHome
    /\ written = NoValues
    /\ cached = NoValues

IdleObjects ==
    /\ options = NoOptions
    /\ values = NoValues
    /\ alias = HostErr
    /\ sheets = SheetNames
    /\ IdleView

IdleRange ==
    /\ cells = BlankCells
    /\ active = SheetNames[1]
    /\ rng = Rng(DataSheet, 1, 1, 1, 1)
    /\ out = NoOut
    /\ IdleObjects

IdleHost ==
    /\ apps = <<>>
    /\ disk = {}
    /\ wbres = NoResult
    /\ activeBook = <<>>
    /\ focus = NoFocus
    /\ pids = <<>>

Init ==
    /\ apps = <<>>
    /\ disk \in SUBSET DiskPaths
    /\ wbres = NoResult
    /\ activeBook = <<>>
    /\ focus = NoFocus
    /\ pids = <<>>
    /\ IdleRange

Next == NewWorkbook \/ StartApp \/ QuitApp \/ OpenBook \/ CloseBook

Spec == Init /\ [][Next]_vars

(***************************************************************************)
(* Specification SpecActive: workbooks of several instances are activated  *)
(* and Workbook.active() is called in between.                             *)
(***************************************************************************)
InitActive == IdleHost /\ IdleRange

NextActive == StartApp \/ QuitApp \/ AddBook \/ CloseBook \/ Activate \/ WorkbookActive

SpecActive == InitActive /\ [][NextActive]_vars

(***************************************************************************)
(* Specification SpecExpand: table, vertical and horizontal are called on  *)
(* a Range of a sheet whose content is drawn from a family: a block of     *)
(* h x w cells holding values whose top-left cell is the top-left cell of  *)
(* the Range (no block when h or w is 0), optionally every cell beyond the *)
(* block's border holding a value, and optionally one cell anywhere        *)
(* overwritten with any kind of content.                                   *)
(***************************************************************************)
MaxBlock == 3
Anchors == {1, 2}
Extents == {1, 2}

ExpandRanges ==
    {Rng(DataSheet, a, b, h, w) : a \in Anchors, b \in Anchors, h \in Extents, w \in Extents}

InBlock(top, left, h, w, r, c) ==
    r \in top..(top + h - 1) /\ c \in left..(left + w - 1)

\* the cells just below the block and just right of it
InBorder(top, left, h, w, r, c) ==
    \/ r = top + h /\ c \in left..(left + w - 1)
    \/ c = left + w /\ r \in top..(top + h - 1)

Window == (1..SheetRows) \X (1..SheetCols)
NoCell == <<0, 0>>

BlockSheet(top, left, h, w, far, pos, kind) ==
    [r \in 1..SheetRows |-> [c \in 1..SheetCols |->
        IF <<r, c>> = pos THEN kind
        ELSE IF InBlock(top, left, h, w, r, c) THEN "value"
        ELSE IF far /\ ~InBorder(top, left, h, w, r, c) THEN "value"
        ELSE "blank"]]

InitExpand ==
    /\ IdleHost
    /\ IdleObjects
    /\ active = SheetNames[1]
    /\ out = NoOut
    /\ rng \in ExpandRanges
    /\ \E h \in 0..MaxBlock, w \in 0..MaxBlock, far \in BOOLEAN,
          pos \in Window \cup {NoCell}, kind \in CellKinds :
          /\ (h = 0) = (w = 0)
          /\ cells = BlockSheet(rng.top, rng.left, h, w, far, pos, kind)

Table ==
    /\ out' = [op |-> "table", res |-> table(rng), edited |-> FALSE]
    /\ UNCHANGED <<hostVars, cells, active, rng, objVars>>

Vertical ==
    /\ out' = [op |-> "vertical", res |-> vertical(rng)]
    /\ UNCHANGED <<hostVars, cells, active, rng, objVars>>

Horizontal ==
    /\ out' = [op |-> "horizontal", res |-> horizontal(rng)]
    /\ UNCHANGED <<hostVars, cells, active, rng, objVars>>

NextExpand == Table \/ Vertical \/ Horizontal

SpecExpand == InitExpand /\ [][NextExpand]_vars

(***************************************************************************)
(* Specification SpecRegion: table is called on a sheet of the same family *)
(* and afterwards a cell that lies neither in the row nor in the column of *)
(* the top-left cell of the Range is emptied or filled.                    *)
(***************************************************************************)
\* Host side: a cell off the anchor's row and column is emptied when it
\* holds something and given a value when it is blank.
EditOffAxis ==
    /\ out.op = "table" /\ ~out.edited
    /\ \E pos \in Window :
          /\ pos[1] # rng.top /\ pos[2] # rng.left
          /\ cells' = [cells EXCEPT ![pos[1]][pos[2]] =
                           IF @ = "blank" THEN "value" ELSE "blank"]
    /\ out' = [out EXCEPT !.edited = TRUE]
    /\ UNCHANGED <<hostVars, active, rng, objVars>>

\* the one call of table that is made
TableOnce == out.op = "none" /\ Table

NextRegion == TableOnce \/ EditOffAxis

SpecRegion == InitExpand /\ [][NextRegion]_vars

(***************************************************************************)
(* Specification SpecIndex: a Range of up to MaxRows x MaxCols cells is    *)
(* indexed with an integer, a slice or a (row, col) tuple.                 *)
(***************************************************************************)
MaxRows == 2
MaxCols == 2

\* Ranges at the top-left corner of the sheet and one cell away from it
IndexRanges ==
    {Rng(DataSheet, a, a, h, w) : a \in Anchors, h \in 1..MaxRows, w \in 1..MaxCols}

OptInts(S) == {None} \cup {Some(v) : v \in S}

\* integers and slice bounds that reach past both ends of the largest Range
LinearInts == (-(MaxRows * MaxCols) - 1)..(MaxRows * MaxCols + 1)
LinearSteps == {None, Some(1), Some(2), Some(0), Some(-1)}

AxisInts == (-Max(MaxRows, MaxCols) - 1)..(Max(MaxRows, MaxCols) + 1)
AxisBounds == OptInts((-1)..Max(MaxRows, MaxCols))
AxisSteps == {None, Some(1), Some(2), Some(-1)}
\* the keys a call is made with
IntKeys == {IntKey(i) : i \in LinearInts}
SliceKeys ==
    {SliceKey(a, b, st) :
        a \in OptInts(LinearInts), b \in OptInts(LinearInts), st \in LinearSteps}
AxisSlices == {SliceIdx(a, b, st) : a \in AxisBounds, b \in AxisBounds, st \in AxisSteps}
AxisIdx == {IntIdx(v) : v \in AxisInts} \cup AxisSlices
TupleKeys == {TupleKey(row, col) : row \in AxisIdx, col \in AxisIdx}

\* The Range and the key of the call are drawn; the call is still to be made.
InitIndex ==
    /\ IdleHost
    /\ options \in OptionBags
    /\ values = NoValues
    /\ alias = HostErr
    /\ sheets = SheetNames
    /\ IdleView
    /\ cells = BlankCells
    /\ active = SheetNames[1]
    /\ rng \in IndexRanges
    /\ \E key \in IntKeys \cup SliceKeys \cup TupleKeys :
          out = [op |-> "call", key |-> key, res |-> Raise("none", ""),
                 options |-> NoOptions]

Called(key) ==
    /\ out' = [op |-> "getitem", key |-> key, res |-> GetItem(rng, key),
                options |-> GetItemOptions(options, key)]
    /\ UNCHANGED <<hostVars, cells, active, rng, objVars>>

\* rng[i]
IndexInt == out.op = "call" /\ out.key.t = "int" /\ Called(out.key)

\* rng[start:stop:step]
IndexSlice == out.op = "call" /\ out.key.t = "slice" /\ Called(out.key)

\* rng[row, col]
IndexTuple == out.op = "call" /\ out.key.t = "tuple" /\ Called(out.key)

NextIndex == IndexInt \/ IndexSlice \/ IndexTuple

SpecIndex == InitIndex /\ [][NextIndex]_vars

(***************************************************************************)
(* Specification SpecShape: resize and offset are called on a Range of up  *)
(* to MaxRows x MaxCols cells.                                             *)
(***************************************************************************)
MaxDelta == 2
MaxSize == 3

Deltas == (-MaxDelta)..MaxDelta
Sizes == (-1)..MaxSize

\* an argument that was not given takes its default: 0 for an offset
OrZero(arg) == IF arg.some THEN arg.v ELSE 0

PendingShape(f, a, b) ==
    [op |-> "call", f |-> f, a |-> a, b |-> b, res |-> Raise("none", ""),
     options |-> NoOptions]

\* The Range and the arguments of the call are drawn; the call is still to
\* be made.
InitShape ==
    /\ IdleHost
    /\ options \in OptionBags
    /\ values = NoValues
    /\ alias = HostErr
    /\ sheets = SheetNames
    /\ IdleView
    /\ cells = BlankCells
    /\ active = SheetNames[1]
    /\ rng \in IndexRanges
    /\ \/ \E a \in OptInts(Deltas), b \in OptInts(Deltas) : out = PendingShape("offset", a, b)
       \/ \E a \in OptInts(Sizes), b \in OptInts(Sizes) : out = PendingShape("resize", a, b)

\* rng.offset(row_offset, column_offset)
Offset ==
    /\ out.op = "call" /\ out.f = "offset"
    /\ out' = [out EXCEPT !.op = "offset",
                          !.res = offset(rng, OrZero(out.a), OrZero(out.b)),
                          !.options = OptionsCall(options)]
    /\ UNCHANGED <<hostVars, cells, active, rng, objVars>>

\* rng.resize(row_size, column_size); the options call is not reached when
\* an assertion fails
Resize ==
    /\ out.op = "call" /\ out.f = "resize"
    /\ out' = [out EXCEPT !.op = "resize",
                          !.res = resize(rng, out.a, out.b),
                          !.options = IF resize(rng, out.a, out.b).kind = "Range"
                                      THEN OptionsCall(options)
                                      ELSE NoOptions]
    /\ UNCHANGED <<hostVars, cells, active, rng, objVars>>

NextShape == Offset \/ Resize

SpecShape == InitShape /\ [][NextShape]_vars

(***************************************************************************)
(* Specification SpecBuild: Ranges are constructed in each of the          *)
(* documented forms while the active sheet changes in between.             *)
(***************************************************************************)
MaxCoord == 3

\* the address the host gives cell (r, c)
FormatCell(r, c) == <<ColLetters[c], RowDigits[r]>>
FormatArea(r1, c1, r2, c2) == FormatCell(r1, c1) \o <<":">> \o FormatCell(r2, c2)

Coords == 1..MaxCoord
Tuples == {TupArg(r, c) : r \in 0..MaxCoord, c \in 0..MaxCoord}
Addresses ==
    {FormatCell(r, c) : r \in Coords, c \in Coords}
        \cup {FormatArea(r1, c1, r2, c2) :
                r1 \in Coords, c1 \in Coords, r2 \in Coords, c2 \in Coords}
CornerCells == {Cell(SheetNames[i], r, c) : i \in DOMAIN SheetNames, r \in Coords, c \in Coords}

\* the ways to name sheet number i in front of the address or tuple part
SheetPrefixes(i) ==
    {<<StrArg(SheetNames[i])>>, <<IntArg(i)>>, <<SheetArg(SheetNames[i])>>}
Prefixes == {<<>>} \cup UNION {SheetPrefixes(i) : i \in DOMAIN SheetNames}

\* the argument lists of the calls, by form
TupleForms == {pre \o <<t>> : pre \in Prefixes, t \in Tuples}
TuplePairForms == {pre \o <<t1, t2>> : pre \in Prefixes, t1 \in Tuples, t2 \in Tuples}
AddressForms == {pre \o <<StrArg(a)>> : pre \in Prefixes, a \in Addresses}
RangePairForms ==
    {<<RngArg(p[1]), RngArg(p[2])>> :
        p \in {q \in CornerCells \X CornerCells : q[1].sheet = q[2].sheet}}

\* Calls that have none of the documented shapes: no argument, more than
\* three arguments, more than one argument in front of the address or tuple
\* part, or a last argument that is neither a string nor a tuple.
MalformedArgs ==
    {StrArg(SheetNames[1]), StrArg(FormatCell(1, 1)), IntArg(1), TupArg(1, 1),
     TupArg(0, 1), RngArg(Cell(SheetNames[1], 1, 1))}

ArgLists(n) == [1..n -> MalformedArgs]

TooManyInFront(args) ==
    /\ Len(args) = 3
    /\ \/ args[3].t = "str"
       \/ args[3].t = "tuple" /\ args[2].t # "tuple"

LastNotSpec(args) ==
    /\ Len(args) \in 1..3
    /\ args[Len(args)].t \notin {"str", "tuple"}
    /\ ~(Len(args) = 2 /\ args[1].t = "Range" /\ args[2].t = "Range")

MalformedForms ==
    {<<>>} \cup ArgLists(4)
        \cup {args \in ArgLists(1) \cup ArgLists(2) \cup ArgLists(3) :
                TooManyInFront(args) \/ LastNotSpec(args)}

Pending(form, args) ==
    [op |-> "call", form |-> form, args |-> args, active |-> active, res |-> Raise("none", "")]

\* The arguments of the call are drawn; the call is still to be made.
InitBuild ==
    /\ IdleHost
    /\ IdleObjects
    /\ cells = BlankCells
    /\ active \in {SheetNames[i] : i \in DOMAIN SheetNames}
    /\ rng = Rng(DataSheet, 1, 1, 1, 1)
    /\ \/ \E args \in TupleForms : out = Pending("tuple", args)
       \/ \E args \in TuplePairForms : out = Pending("tuples", args)
       \/ \E args \in AddressForms : out = Pending("address", args)
       \/ \E args \in RangePairForms : out = Pending("ranges", args)
       \/ \E args \in MalformedForms : out = Pending("malformed", args)

\* the constructor call; active is the sheet that is active when it is made
Built(form) ==
    /\ out.op = "call" /\ out.form = form
    /\ out' = [out EXCEPT !.op = "Range", !.active = active, !.res = RangeInit(out.args)]
    /\ UNCHANGED <<hostVars, cells, active, rng, objVars>>

\* Range((r, c)), Range(sheet, (r, c))
BuildFromTuple == Built("tuple")

\* Range((r1, c1), (r2, c2)), Range(sheet, (r1, c1), (r2, c2))
BuildFromTuples == Built("tuples")

\* Range('A1:C3'), Range(sheet, 'A1:C3')
BuildFromAddress == Built("address")

\* Range(a, b) for two Ranges of one sheet
BuildFromRanges == Built("ranges")

\* Range(), Range(1), Range(sheet, sheet, 'A1'), Range(a, b, c, d), ...
BuildMalformed == Built("malformed")

\* Host side: another sheet of the active workbook is activated.
ActivateSheet ==
    /\ \E i \in DOMAIN sheets :
          /\ sheets[i] # active
          /\ active' = sheets[i]
    /\ UNCHANGED <<hostVars, cells, rng, out, objVars>>

NextBuild ==
    \/ BuildFromTuple \/ BuildFromTuples \/ BuildFromAddress \/ BuildFromRanges
    \/ BuildMalformed
    \/ ActivateSheet

SpecBuild == InitBuild /\ [][NextBuild]_vars

(***************************************************************************)
(* Range.value.  The host holds one value per cell; "None" is a blank      *)
(* cell.  The instance has two workbooks, one with the sheets SheetNames   *)
(* and one with the sheets OtherSheets; no two sheets have the same name,  *)
(* so that a name stands for one sheet.  The model keeps the values of the *)
(* first ViewCols cells of row 1 of every sheet.                           *)
(***************************************************************************)
ViewCols == 2
ViewCells == {<<1, c>> : c \in 1..ViewCols}
Vals == {"None", "x", "y"}
SheetSet ==
    {SheetNames[i] : i \in DOMAIN SheetNames} \cup {OtherSheets[i] : i \in DOMAIN OtherSheets}

CellsOf(self) ==
    {<<r, c>> : r \in self.top..(self.top + self.rows - 1),
                c \in self.left..(self.left + self.cols - 1)}

\* conversion.read with the default options: the values the host holds, at
\* the moment of the call, for the cells the handle of rg designates
read(rg) == [p \in CellsOf(rg) |-> values[rg.sheet][p]]

\* conversion.write with the default options, for data that gives every
\* cell of rg the value data: the cell values the host holds afterwards
write(data, rg) ==
    [values EXCEPT ![rg.sheet] = [p \in ViewCells |-> IF p \in CellsOf(rg) THEN data ELSE @[p]]]

\* the getter answering from a copy of the cell values that is taken when a
\* Range object is built
value_cached(self) == [p \in CellsOf(self) |-> cached[self.sheet][p]]

\* the getter of Range.value: conversion.read(self, None, self._options)
value(self) == read(self)

\* the setter looking up the rectangle of self on the sheet that is active
\* when the write is made
set_value_active_sheet(self, data) == write(data, [self EXCEPT !.sheet = active])

\* the setter of Range.value: conversion.write(data, self, self._options)
set_value(self, data) == write(data, self)

(***************************************************************************)
(* Specification SpecView: a Range is built from a bare address or a bare  *)
(* tuple, a second Range is built over the same cells, sheets and          *)
(* workbooks are activated, and values are written and read through both   *)
(* Ranges.                                                                 *)
(***************************************************************************)
\* the calls with no sheet argument, each with the columns of row 1 it names
ViewCalls ==
    {[args |-> <<StrArg(FormatCell(1, c))>>, left |-> c, right |-> c] : c \in 1..ViewCols}
        \cup {[args |-> <<TupArg(1, c)>>, left |-> c, right |-> c] : c \in 1..ViewCols}
        \cup {[args |-> <<StrArg(FormatArea(1, c1, 1, c2))>>,
               left |-> Min(c1, c2), right |-> Max(c1, c2)] :
                 c1 \in 1..ViewCols, c2 \in 1..ViewCols}
        \cup {[args |-> <<TupArg(1, c1), TupArg(1, c2)>>,
               left |-> Min(c1, c2), right |-> Max(c1, c2)] :
                 c1 \in 1..ViewCols, c2 \in 1..ViewCols}

BareViewForms == {call.args : call \in ViewCalls}

\* the ways to name a sheet of either workbook in front of the address or
\* tuple part
ViewPrefixes ==
    Prefixes \cup UNION {{<<StrArg(OtherSheets[i])>>, <<SheetArg(OtherSheets[i])>>} :
                            i \in DOMAIN OtherSheets}

ViewForms == {pre \o form : pre \in ViewPrefixes, form \in BareViewForms}

BlankValues == [sh \in SheetSet |-> [p \in ViewCells |-> "None"]]

\* either workbook is the active one
InitView ==
    /\ IdleHost
    /\ cells = BlankCells
    /\ \E i \in DOMAIN SheetNames, j \in DOMAIN OtherSheets :
          \/ active = SheetNames[i] /\ parked = OtherSheets[j] /\ sheets = SheetNames
          \/ active = OtherSheets[j] /\ parked = SheetNames[i] /\ sheets = OtherSheets
    /\ rng = HostErr
    /\ alias = HostErr
    /\ out = NoOut
    /\ options = NoOptions
    /\ values = BlankValues
    /\ home = NoHome
    /\ written = BlankValues
    /\ cached = BlankValues

\* rng = Range('A1'), Range((1, 1)), Range('A1:B1'), ...: no sheet argument
NewView ==
    /\ rng = HostErr
    /\ \E call \in ViewCalls :
          /\ RangeInit(call.args).kind = "Range"
          /\ rng' = RangeInit(call.args).rg
          /\ home' = [sheet |-> active, left |-> call.left, right |-> call.right]
          /\ out' = [op |-> "Range", via |-> "rng", args |-> call.args]
    /\ cached' = values
    /\ UNCHANGED <<hostVars, cells, active, options, values, alias, sheets, parked, written>>

\* a second Range object built over the cells of rng, in any form
NewAlias ==
    /\ rng # HostErr
    /\ alias = HostErr
    /\ \E args \in ViewForms :
          /\ RangeInit(args) = Ok(rng)
          /\ alias' = RangeInit(args).rg
          /\ out' = [op |-> "Range", via |-> "alias", args |-> args]
    /\ cached' = values
    /\ UNCHANGED <<hostVars, cells, active, options, values, rng, sheets, parked, home, written>>

\* Host side: the other workbook of the instance is activated; its active
\* sheet becomes the active sheet.
ActivateBook ==
    /\ active' = parked
    /\ parked' = active
    /\ sheets' = IF sheets = SheetNames THEN OtherSheets ELSE SheetNames
    /\ UNCHANGED <<hostVars, cells, rng, out, options, values, alias, home, written, cached>>

Views == {v \in {[via |-> "rng", self |-> rng], [via |-> "alias", self |-> alias]} :
             v.self # HostErr}

\* view.value = data
SetValue ==
    /\ \E v \in Views, data \in Vals :
          /\ values' = set_value(v.self, data)
          /\ written' = [sh \in SheetSet |-> [p \in ViewCells |->
                            IF sh = v.self.sheet /\ p \in CellsOf(v.self)
                            THEN data ELSE written[sh][p]]]
          /\ out' = [op |-> "write", via |-> v.via, self |-> v.self, data |-> data]
    /\ UNCHANGED <<hostVars, cells, active, options, rng, alias, sheets, parked, home, cached>>

\* view.value
GetValue ==
    /\ \E v \in Views :
          out' = [op |-> "read", via |-> v.via, self |-> v.self, res |-> value(v.self)]
    /\ UNCHANGED <<hostVars, cells, active, options, values, rng, alias, sheets, viewVars>>

NextView == NewView \/ NewAlias \/ ActivateSheet \/ ActivateBook \/ SetValue \/ GetValue

SpecView == InitView /\ [][NextView]_vars

(***************************************************************************)
(* Sheets.add and Sheets.__delitem__ on the sheet collection of the active *)
(* workbook.                                                               *)
(***************************************************************************)
MaxSheets == 3

\* name=None
NoName == <<>>
AddNames == {<<"a">>, <<"A">>, <<"b">>, <<"s", "1">>, <<"S", "3">>}

\* the duplicate test comparing the names as they are
NameTaken_exact(names, name) == \E i \in DOMAIN names : names[i] = name

\* name.lower() in (s.name.lower() for s in self)
NameTaken(names, name) == \E i \in DOMAIN names : Lower(names[i]) = Lower(name)

\* The name the host gives a new sheet: the first of S1, S2, ... that no
\* sheet of the workbook has, ignoring case.
DefaultName(names) ==
    LET free == {d \in DOMAIN RowDigits :
                    \A i \in DOMAIN names : Lower(names[i]) # Lower(<<"S", RowDigits[d]>>)}
    IN  <<"S", RowDigits[CHOOSE d \in free : \A e \in free : d <= e]>>

InsertAt(names, pos, name) ==
    SubSeq(names, 1, pos - 1) \o <<name>> \o SubSeq(names, pos, Len(names))

RemoveAt(names, pos) ==
    SubSeq(names, 1, pos - 1) \o SubSeq(names, pos + 1, Len(names))

\* Sheets.__getitem__ for a number: the 1-based position of the sheet, or 0
\* when IndexError is raised.
SheetsGetItem(names, k) ==
    LET l == Len(names) IN
    IF k >= l THEN 0
    ELSE IF k < 0 THEN (IF k < -l THEN 0 ELSE k + l + 1)
    ELSE k + 1

\* sheets.add(name, before, after); pos is the place the host puts the new
\* sheet at.  The new sheet becomes the active sheet.
SheetsAdd ==
    /\ Len(sheets) < MaxSheets
    /\ \E name \in AddNames \cup {NoName}, pos \in 1..(Len(sheets) + 1) :
          IF name # NoName /\ NameTaken(sheets, name)
          THEN /\ out' = [op |-> "add", name |-> name, res |-> "ValueError"]
               /\ UNCHANGED <<sheets, active>>
          ELSE LET given == IF name # NoName THEN name ELSE DefaultName(sheets)
               IN  /\ sheets' = InsertAt(sheets, pos, given)
                   /\ active' = given
                   /\ out' = [op |-> "add", name |-> name, res |-> "Sheet"]
    /\ UNCHANGED <<hostVars, cells, rng, options, values, alias, viewVars>>

\* del sheets[k]; the host keeps at least one sheet in a workbook and
\* activates a neighbour when the active sheet goes.
SheetsDelete ==
    /\ \E k \in (-Len(sheets) - 1)..Len(sheets) :
          LET pos == SheetsGetItem(sheets, k) IN
          IF pos = 0
          THEN /\ out' = [op |-> "del", name |-> NoName, res |-> "IndexError"]
               /\ UNCHANGED <<sheets, active>>
          ELSE IF Len(sheets) = 1
          THEN /\ out' = [op |-> "del", name |-> sheets[pos], res |-> "HostError"]
               /\ UNCHANGED <<sheets, active>>
          ELSE /\ sheets' = RemoveAt(sheets, pos)
               /\ active' = IF active = sheets[pos] THEN RemoveAt(sheets, pos)[1] ELSE active
               /\ out' = [op |-> "del", name |-> sheets[pos], res |-> "None"]
    /\ UNCHANGED <<hostVars, cells, rng, options, values, alias, viewVars>>

InitSheets ==
    /\ IdleHost
    /\ IdleRange

NextSheets == SheetsAdd \/ SheetsDelete

SpecSheets == InitSheets /\ [][NextSheets]_vars

(***************************************************************************)
(* Properties of the sheet collection (checked under SpecSheets).          *)
(***************************************************************************)
UniqueNames(names) ==
    \A i \in DOMAIN names, j \in DOMAIN names :
        i # j => Lower(names[i]) # Lower(names[j])

Has(names, name) == \E i \in DOMAIN names : Lower(names[i]) = Lower(name)

\* C20: after any sequence of sheets.add and del sheets[k], no two sheets
\* have names that are equal ignoring case; sheets.add with a name that a
\* sheet has (ignoring case) raises and leaves the collection as it was, and
\* with a name that no sheet has any more it adds a sheet of that name.
C20_UniqueSheetNames ==
    /\ []UniqueNames(sheets)
    /\ [][(out' # out /\ out'.op = "add" /\ out'.name # NoName) =>
              IF Has(sheets, out'.name)
              THEN out'.res = "ValueError" /\ sheets' = sheets
              ELSE /\ out'.res = "Sheet"
                   /\ Len(sheets') = Len(sheets) + 1
                   /\ \E i \in DOMAIN sheets' : sheets'[i] = out'.name]_vars

\* sheets.add('s1') refused while the sheet S1 is there
C20_Witness ==
    /\ out.op = "add" /\ out.name = <<"s", "1">> /\ out.res = "ValueError"
    /\ Has(sheets, <<"s", "1">>)
    /\ Len(sheets) = 2

(***************************************************************************)
(* Properties of the region expander (checked under SpecExpand).           *)
(* In these statements a cell is non-empty when it holds a value and empty *)
(* when it is blank or holds the empty string; the cells beyond the block  *)
(* and its border may hold anything, formulas included.                    *)
(***************************************************************************)
HoldsValue(r, c) == KindAt(DataSheet, r, c) = "value"
IsEmptyCell(r, c) == KindAt(DataSheet, r, c) \in {"blank", "emptystr"}

FullBlock(top, left, h, w) ==
    \A r \in top..(top + h - 1), c \in left..(left + w - 1) : HoldsValue(r, c)

EmptyBorder(top, left, h, w) ==
    /\ \A c \in left..(left + w - 1) : IsEmptyCell(top + h, c)
    /\ \A r \in top..(top + h - 1) : IsEmptyCell(r, left + w)

Returned(top, left, h, w) == Res("Range", "", Rng(rng.sheet, top, left, h, w), 0, 0)

\* C2: table, called on a Range whose top-left cell is the top-left cell of
\* an h x w block of non-empty cells with empty cells below it and to its
\* right, returns exactly that h x w region, whatever the cells beyond the
\* border hold.
C2_TableReturnsBlock ==
    out.op = "table" =>
        \A h \in 1..SheetRows, w \in 1..SheetCols :
            (FullBlock(rng.top, rng.left, h, w) /\ EmptyBorder(rng.top, rng.left, h, w))
                => out.res = Returned(rng.top, rng.left, h, w)

\* a 3 x 3 block with non-empty cells beyond its empty border
C2_Witness ==
    /\ out.op = "table"
    /\ FullBlock(rng.top, rng.left, 3, 3)
    /\ EmptyBorder(rng.top, rng.left, 3, 3)
    /\ HoldsValue(rng.top + 4, rng.left)
    /\ HoldsValue(rng.top, rng.left + 4)
    /\ out.res = Returned(rng.top, rng.left, 3, 3)

AllEmptySheet == \A p \in Window : IsEmptyCell(p[1], p[2])

\* C7: table on an anchor whose right and below neighbours are empty returns
\* the single anchor cell; on an all-empty sheet table, vertical and
\* horizontal on a single-cell Range raise nothing and return that cell.
C7_DegenerateToAnchor ==
    /\ (out.op = "table" /\ IsEmptyCell(rng.top, rng.left + 1)
            /\ IsEmptyCell(rng.top + 1, rng.left))
        => out.res = Returned(rng.top, rng.left, 1, 1)
    /\ (out.op \in {"table", "vertical", "horizontal"} /\ AllEmptySheet
            /\ rng.rows = 1 /\ rng.cols = 1)
        => out.res = Returned(rng.top, rng.left, 1, 1)

\* horizontal on a single cell of a sheet with no content at all
C7_Witness ==
    /\ out.op = "horizontal"
    /\ AllEmptySheet
    /\ rng.rows = 1 /\ rng.cols = 1
    /\ rng.top = 2
    /\ out.res.kind = "Range"

\* the first column of rng holds exactly k non-empty cells from the top
ColumnRun(k) ==
    /\ \A i \in 0..(k - 1) : HoldsValue(rng.top + i, rng.left)
    /\ IsEmptyCell(rng.top + k, rng.left)

\* the first row of rng holds exactly k non-empty cells from the left
RowRun(k) ==
    /\ \A i \in 0..(k - 1) : HoldsValue(rng.top, rng.left + i)
    /\ IsEmptyCell(rng.top, rng.left + k)

\* C8: when the first column of the Range holds exactly k consecutive
\* non-empty cells from its top-left cell, vertical returns k rows and the
\* original column count from the same top-left cell; horizontal likewise
\* returns k columns and the original row count.
C8_DirectionalRun ==
    /\ out.op = "vertical" =>
          \A k \in 1..SheetRows :
              ColumnRun(k) => out.res = Returned(rng.top, rng.left, k, rng.cols)
    /\ out.op = "horizontal" =>
          \A k \in 1..SheetCols :
              RowRun(k) => out.res = Returned(rng.top, rng.left, rng.rows, k)

\* a run of three cells under a two-column Range, found by the directional jump
C8_Witness ==
    /\ out.op = "vertical"
    /\ ColumnRun(3)
    /\ rng.cols = 2
    /\ out.res = Returned(rng.top, rng.left, 3, 2)

\* the emptiness test of the default mode: a blank cell and an empty-string
\* cell are empty, a cell with a formula that evaluates to blank is not
StopsGrowth(r, c) == KindAt(DataSheet, r, c) \in {"blank", "emptystr"}

\* the first cell below the top-left cell of rng that stops the growth is k
\* positions away
StopsBelowAt(k) ==
    /\ \A i \in 1..(k - 1) : ~StopsGrowth(rng.top + i, rng.left)
    /\ StopsGrowth(rng.top + k, rng.left)

\* the same to the right
StopsRightAt(k) ==
    /\ \A i \in 1..(k - 1) : ~StopsGrowth(rng.top, rng.left + i)
    /\ StopsGrowth(rng.top, rng.left + k)

\* C21: in the default mode the growth of table, vertical and horizontal
\* stops at the first blank or empty-string cell and runs through cells
\* holding a formula that evaluates to blank, whether that cell is one, two
\* or more positions from the anchor.
C21_SameEmptinessTest ==
    /\ out.op = "vertical" =>
          \A k \in 1..SheetRows :
              StopsBelowAt(k) => out.res = Returned(rng.top, rng.left, k, rng.cols)
    /\ out.op = "horizontal" =>
          \A k \in 1..SheetCols :
              StopsRightAt(k) => out.res = Returned(rng.top, rng.left, rng.rows, k)
    /\ out.op = "table" =>
          \A k \in 1..SheetRows, m \in 1..SheetCols :
              (StopsBelowAt(k) /\ StopsRightAt(m))
                  => out.res = Returned(rng.top, rng.left, k, m)

\* C22: on a single-cell anchor table has the row count of vertical and the
\* column count of horizontal, and its result depends on the cells of the
\* anchor's column and row only: the Range table returned is still what
\* table returns after a cell outside that column and row has changed.
C22_TableIsVerticalAndHorizontal ==
    out.op = "table" =>
        /\ out.res.kind = "Range"
        /\ out.res = table(rng)
        /\ (rng.rows = 1 /\ rng.cols = 1) =>
              /\ out.res.rg.rows = vertical(rng).rg.rows
              /\ out.res.rg.cols = horizontal(rng).rg.cols
              /\ out.res.rg.top = rng.top /\ out.res.rg.left = rng.left

\* a 2 x 2 block whose interior cell was emptied after the call
C22_Witness ==
    /\ out.op = "table" /\ out.edited
    /\ rng.rows = 1 /\ rng.cols = 1
    /\ HoldsValue(rng.top + 1, rng.left) /\ HoldsValue(rng.top, rng.left + 1)
    /\ KindAt(DataSheet, rng.top + 1, rng.left + 1) = "blank"
    /\ KindAt(DataSheet, rng.top + 2, rng.left) = "blank"
    /\ KindAt(DataSheet, rng.top, rng.left + 2) = "blank"
    /\ out.res = Returned(rng.top, rng.left, 2, 2)

(***************************************************************************)
(* Properties of the document resolver (checked under Spec).               *)
(***************************************************************************)
EqualIgnoringCase(s, t) == Lower(s) = Lower(t)

\* the (instance, workbook) pairs open in instances a that ident names
Matching(a, ident) ==
    {p \in (DOMAIN a) \X Books :
        /\ p[2] \in a[p[1]]
        /\ (EqualIgnoringCase(p[2].name, ident) \/ EqualIgnoringCase(p[2].fullname, ident))}

CallWorkbook(ident) == WorkbookInit(ident) /\ UNCHANGED <<disk, rangeVars>>

\* C1: Workbook(fullname) returns the one open workbook whose name or path
\* equals fullname ignoring case when exactly one (instance, workbook) pair
\* matches, raises the ambiguity failure when several match, raises the
\* not-found failure when none matches and fullname is not a file on disk,
\* and never returns a workbook that does not match.
C1_Resolve ==
    [][\A ident \in Idents :
          CallWorkbook(ident) =>
              LET m == Matching(apps, ident) IN
              /\ Cardinality(m) = 1 =>
                    (wbres'.kind = "workbook" /\ <<wbres'.app, wbres'.wb>> \in m)
              /\ Cardinality(m) > 1 => wbres'.kind = "Ambiguous"
              /\ (Cardinality(m) = 0 /\ ident \notin disk) => wbres'.kind = "NotFound"
              /\ wbres'.kind = "workbook" =>
                    (\/ EqualIgnoringCase(wbres'.wb.name, ident)
                     \/ EqualIgnoringCase(wbres'.wb.fullname, ident))]_vars

\* The same statement with the file test made on the lower-cased fullname,
\* as the code makes it.
C1_ResolveLowered ==
    [][\A ident \in Idents :
          CallWorkbook(ident) =>
              LET m == Matching(apps, ident) IN
              /\ Cardinality(m) = 1 =>
                    (wbres'.kind = "workbook" /\ <<wbres'.app, wbres'.wb>> \in m)
              /\ Cardinality(m) > 1 => wbres'.kind = "Ambiguous"
              /\ (Cardinality(m) = 0 /\ Lower(ident) \notin disk) => wbres'.kind = "NotFound"
              /\ wbres'.kind = "workbook" =>
                    (\/ EqualIgnoringCase(wbres'.wb.name, ident)
                     \/ EqualIgnoringCase(wbres'.wb.fullname, ident))]_vars

\* C12: when no open workbook matches fullname and fullname is a file on
\* disk, Workbook(fullname) returns the workbook opened from that file, open
\* in a running instance afterwards; with no instance running one is started
\* first and the call still returns the opened workbook.
C12_OpenFromDisk ==
    [][\A ident \in Idents :
          CallWorkbook(ident) =>
              ((Matching(apps, ident) = {} /\ ident \in disk) =>
                  /\ wbres'.kind = "workbook"
                  /\ EqualIgnoringCase(wbres'.wb.fullname, ident)
                  /\ Len(apps') >= 1
                  /\ wbres'.app \in DOMAIN apps'
                  /\ wbres'.wb \in apps'[wbres'.app])]_vars

\* the decimal text of a number of matches
CountText(n) == <<RowDigits[n]>>

Names(res, s) == \E i \in DOMAIN res.fmt : EqualIgnoringCase(res.fmt[i], s)

\* C13: every failure of Workbook(fullname) carries the identifier in its
\* message, and the message of the ambiguity failure also carries the number
\* of matching (instance, workbook) pairs.
C13_FailureMessage ==
    [][\A ident \in Idents :
          CallWorkbook(ident) =>
              /\ wbres'.kind # "workbook" => Names(wbres', ident)
              /\ wbres'.kind = "Ambiguous" =>
                    \E i \in DOMAIN wbres'.fmt :
                        wbres'.fmt[i] = CountText(Cardinality(Matching(apps, ident)))]_vars

(***************************************************************************)
(* Properties of Workbook.active (checked under SpecActive).               *)
(***************************************************************************)
\* C14: Workbook.active() returns the active workbook of the instance that
\* was given the focus last: after a sequence of wb.activate() calls on
\* workbooks of different instances it returns the workbook activated last.
\* The instance it answers for is one that is running at the moment of the
\* call.
C14_ActiveFollowsFocus ==
    [][WorkbookActive =>
          /\ Len(apps) > 0 =>
                 /\ wbres'.kind = "active"
                 /\ wbres'.app \in DOMAIN apps
          /\ focus # NoFocus =>
                 /\ pids[wbres'.app] = focus.app
                 /\ wbres'.wb = focus.wb
                 /\ wbres'.wb \in apps[wbres'.app]]_vars

\* two instances, each with a workbook of its own; the workbook of the
\* instance started first was activated, then the one of the instance
\* started second, and Workbook.active() returns the latter
C14_Witness ==
    /\ wbres.kind = "active"
    /\ Len(apps) = 2
    /\ pids = <<2, 1>>
    /\ focus.app = 2
    /\ wbres.wb = focus.wb
    /\ activeBook[2] # NoBook
    /\ activeBook[2] # activeBook[1]
    /\ apps[1] \cap apps[2] = {}

(***************************************************************************)
(* Properties of the Range constructor (checked under SpecBuild).          *)
(***************************************************************************)
Region(sh, r1, c1, r2, c2) ==
    Res("Range", "", Rng(sh, r1, c1, r2 - r1 + 1, c2 - c1 + 1), 0, 0)

\* the forms that denote the rectangle with corners (r1, c1), (r2, c2) on
\* the sheet that is active when the call is made
BareForms(r1, c1, r2, c2) ==
    {<<TupArg(r1, c1), TupArg(r2, c2)>>, <<TupArg(r2, c2), TupArg(r1, c1)>>,
     <<StrArg(FormatArea(r1, c1, r2, c2))>>}

\* the forms that denote it on sheet number i
SheetForms(i, r1, c1, r2, c2) ==
    {pre \o form : pre \in SheetPrefixes(i), form \in BareForms(r1, c1, r2, c2)}
        \cup {<<RngArg(Cell(SheetNames[i], r1, c1)), RngArg(Cell(SheetNames[i], r2, c2))>>,
              <<RngArg(Cell(SheetNames[i], r2, c2)), RngArg(Cell(SheetNames[i], r1, c1))>>}

\* C3: every construction form that denotes the rectangle (r1, c1)..(r2, c2)
\* of a sheet yields the same normalized region: top-left (r1, c1), r2-r1+1
\* rows and c2-c1+1 columns on that sheet, whichever corner comes first.
C3_FormsAgree ==
    out.op = "Range" =>
        \A r1 \in Coords, c1 \in Coords, r2 \in Coords, c2 \in Coords :
            (r1 <= r2 /\ c1 <= c2) =>
                /\ out.args \in BareForms(r1, c1, r2, c2)
                      => out.res = Region(out.active, r1, c1, r2, c2)
                /\ \A i \in DOMAIN SheetNames :
                      out.args \in SheetForms(i, r1, c1, r2, c2)
                          => out.res = Region(SheetNames[i], r1, c1, r2, c2)

\* the address form behind a sheet name, for a sheet that is not active
C3_Witness ==
    /\ out.op = "Range"
    /\ out.args = <<StrArg(SheetNames[2]), StrArg(FormatArea(1, 1, 3, 3))>>
    /\ out.active = SheetNames[1]
    /\ out.res = Region(SheetNames[2], 1, 1, 3, 3)

IsTupleForm(args) ==
    \E pre \in Prefixes :
        \/ \E t \in Tuples : args = pre \o <<t>>
        \/ \E t1 \in Tuples, t2 \in Tuples : args = pre \o <<t1, t2>>

HasZero(args) ==
    \E i \in DOMAIN args : args[i].t = "tuple" /\ (args[i].r = 0 \/ args[i].c = 0)

ZeroBasedAccessError ==
    Raise("IndexError", "Attempted to access 0-based Range. xlwings/Excel Ranges are 1-based.")

\* C4: in every tuple form, with or without a sheet in front, a row or a
\* column equal to 0 in any tuple raises the zero-based-access error and no
\* Range is made; with all coordinates at least 1 that error is not raised.
C4_ZeroCoordinate ==
    (out.op = "Range" /\ IsTupleForm(out.args)) =>
        (HasZero(out.args) <=> out.res = ZeroBasedAccessError)

\* the zero is the column of the second tuple, behind a sheet index
C4_Witness ==
    /\ out.op = "Range"
    /\ out.args = <<IntArg(2), TupArg(1, 1), TupArg(2, 0)>>
    /\ out.res = ZeroBasedAccessError

InvalidArguments == Raise("ValueError", "Invalid arguments")

\* C11: every constructor call without a documented shape (no argument, more
\* than three arguments, more than one argument in front of the address or
\* tuple part, a last argument that is neither a string nor a tuple) raises
\* ValueError("Invalid arguments") and no other exception.
C11_InvalidArguments ==
    (out.op = "Range" /\ out.form = "malformed") => out.res = InvalidArguments

(***************************************************************************)
(* Properties of Range.offset and Range.resize (checked under SpecShape).  *)
(***************************************************************************)
OnSheet(top, left) == top >= 1 /\ left >= 1

\* C25: rng.offset(dr, dc) is the Range on the sheet of rng with the row and
\* column count of rng whose top-left cell is that of rng moved by (dr, dc);
\* offset(0, 0) is the region of rng, and offset(a, b).offset(c, d) is the
\* region of offset(a + c, b + d) whenever the cells involved are on the
\* sheet.
C25_Offset ==
    out.op = "offset" =>
        LET dr == OrZero(out.a)
            dc == OrZero(out.b)
        IN  OnSheet(rng.top + dr, rng.left + dc) =>
              /\ out.res = Res("Range", "",
                               Rng(rng.sheet, rng.top + dr, rng.left + dc, rng.rows, rng.cols),
                               0, 0)
              /\ (dr = 0 /\ dc = 0) => out.res.rg = rng
              /\ \A c \in Deltas, d \in Deltas :
                    OnSheet(rng.top + dr + c, rng.left + dc + d) =>
                        /\ offset(out.res.rg, c, d).kind = "Range"
                        /\ offset(out.res.rg, c, d) = offset(rng, dr + c, dc + d)

\* a 2 x 2 Range moved one row up and one column to the right
C25_Witness ==
    /\ out.op = "offset" /\ out.a = Some(-1) /\ out.b = Some(1)
    /\ rng = Rng(DataSheet, 2, 2, 2, 2)
    /\ out.res = Res("Range", "", Rng(DataSheet, 1, 3, 2, 2), 0, 0)

Rejected(size) == size.some /\ size.v <= 0

\* C26: rng.resize(r, c) is the Range with the top-left cell of rng and r
\* rows and c columns, an omitted argument keeping the count of rng on its
\* axis; resize() is the region of rng, resizing the result again with the
\* same arguments changes nothing, and a size of 0 or below fails an
\* assertion and returns no Range.
C26_Resize ==
    out.op = "resize" =>
        IF Rejected(out.a) \/ Rejected(out.b)
        THEN out.res = Raise("AssertionError", "")
        ELSE LET r == IF out.a.some THEN out.a.v ELSE rng.rows
                 c == IF out.b.some THEN out.b.v ELSE rng.cols
             IN  /\ out.res = Res("Range", "", Rng(rng.sheet, rng.top, rng.left, r, c), 0, 0)
                 /\ (~out.a.some /\ ~out.b.some) => out.res.rg = rng
                 /\ resize(out.res.rg, out.a, out.b) = out.res

\* a 2 x 2 Range resized to three rows, the column size omitted
C26_Witness ==
    /\ out.op = "resize" /\ out.a = Some(3) /\ out.b = None
    /\ rng = Rng(DataSheet, 2, 2, 2, 2)
    /\ out.res = Res("Range", "", Rng(DataSheet, 2, 2, 3, 2), 0, 0)

(***************************************************************************)
(* Properties of a Range as a view (checked under SpecView).               *)
(***************************************************************************)
\* the cells the arguments rng was built from name
HomeCells == {<<1, c>> : c \in home.left..home.right}

\* C15: a Range built from a bare address or tuple is bound to the sheet
\* that is active when it is built; whatever sheet or workbook is activated
\* afterwards, the Range denotes the cells its arguments named on that
\* sheet, a write through it changes these cells and no other cell of any
\* sheet, and a read through it returns the values of these cells.
C15_BindingFrozen ==
    [][/\ rng' # HostErr =>
              /\ rng'.sheet = home'.sheet
              /\ CellsOf(rng') = {<<1, c>> : c \in (home'.left)..(home'.right)}
       /\ (out' # out /\ out'.op = "Range" /\ out'.via = "rng") =>
              home'.sheet = active
       /\ (out' # out /\ out'.op = "write" /\ out'.via = "rng") =>
              \A sh \in SheetSet, p \in ViewCells :
                  values'[sh][p] = IF sh = home.sheet /\ p \in HomeCells
                                   THEN out'.data
                                   ELSE values[sh][p]
       /\ (out' # out /\ out'.op = "read" /\ out'.via = "rng") =>
              /\ DOMAIN out'.res = HomeCells
              /\ \A p \in HomeCells : out'.res[p] = values[home.sheet][p]]_vars

\* a write through a Range built on the first sheet, made after the second
\* sheet and then the other workbook have been activated
C15_Witness ==
    /\ out.op = "write" /\ out.via = "rng" /\ out.data = "x"
    /\ home.sheet = SheetNames[1]
    /\ parked = SheetNames[2]
    /\ active = OtherSheets[1]
    /\ \A p \in HomeCells : values[home.sheet][p] = "x"
    /\ \A p \in ViewCells : values[active][p] = "None" /\ values[parked][p] = "None"

\* C19: a Range caches no values: every read through either of two Range
\* objects over the same cells returns, for each cell, the data of the last
\* write made to it through either object, and a read through one object
\* right after a write through the other returns the data just written.
C19_NoCaching ==
    [][(out' # out /\ out'.op = "read") =>
          /\ DOMAIN out'.res = CellsOf(out'.self)
          /\ \A p \in CellsOf(out'.self) : out'.res[p] = written[out'.self.sheet][p]
          /\ (out.op = "write" /\ out'.via # out.via) =>
                 \A p \in CellsOf(out'.self) : out'.res[p] = out.data]_vars

\* a read through the first Range of a two-cell region, after a write through
\* it and a later write of other data through the second Range
C19_Witness ==
    /\ out.op = "read" /\ out.via = "rng"
    /\ rng = alias /\ rng.cols = 2
    /\ \A p \in CellsOf(rng) : /\ out.res[p] = "y"
                                /\ written[rng.sheet][p] = "y"
                                /\ cached[rng.sheet][p] = "x"

(***************************************************************************)
(* Properties of Range.__getitem__ (checked under SpecIndex).              *)
(***************************************************************************)
CellOf(r, c) == Res("Range", "", Rng(rng.sheet, r, c, 1, 1), 0, 0)

\* C5: rng[i] accepts exactly -count <= i < count; rng[i] and
\* rng[-(count - i)] are the same cell, -1 is the last cell, and any other i
\* raises IndexError naming the index and the element count.
C5_LinearIndex ==
    (out.op = "getitem" /\ out.key.t = "int") =>
        LET i == out.key.row.v
            count == rng.rows * rng.cols
        IN  /\ (0 <= i /\ i < count) =>
                  /\ out.res.kind = "Range"
                  /\ out.res = GetItem(rng, IntKey(-(count - i)))
            /\ (-count <= i /\ i < 0) =>
                  /\ out.res.kind = "Range"
                  /\ out.res = GetItem(rng, IntKey(count + i))
            /\ i = -1 =>
                  out.res = CellOf(rng.top + rng.rows - 1, rng.left + rng.cols - 1)
            /\ (i >= count \/ i < -count) =>
                  out.res = Res("IndexError", "Index %s out of range (%s elements).",
                                HostErr, i, count)

\* the most negative index that is accepted, on a Range of four cells
C5_Witness ==
    /\ out.op = "getitem" /\ out.key.t = "int"
    /\ rng.rows = 2 /\ rng.cols = 2
    /\ out.key.row.v = -4
    /\ out.res = CellOf(rng.top, rng.left)

Normalized(v, n) == IF v < 0 THEN v + n ELSE v

\* a slice with both bounds given, start in bounds, and stop below start
\* once negative bounds are counted from the end
StopBeforeStart(idx, n) ==
    /\ idx.slice /\ ~idx.step.some
    /\ idx.start.some /\ idx.stop.some
    /\ -n <= idx.start.v /\ idx.start.v < n
    /\ -n <= idx.stop.v /\ idx.stop.v <= n
    /\ Normalized(idx.stop.v, n) < Normalized(idx.start.v, n)

\* C6: a slice whose stop is below its start after negative bounds are
\* normalized, start being in bounds, selects nothing: a result of 0 cells
\* and no error, for rng[start:stop] and on either axis of rng[rows, cols].
C6_EmptySelection ==
    out.op = "getitem" =>
        /\ (out.key.t = "slice" /\ StopBeforeStart(out.key.row, rng.rows * rng.cols))
              => (out.res.kind = "Range" /\ Count(out.res.rg) = 0)
        /\ (out.key.t = "tuple"
               /\ (\/ StopBeforeStart(out.key.row, rng.rows)
                   \/ StopBeforeStart(out.key.col, rng.cols)))
              => (out.res.kind = "Range" /\ Count(out.res.rg) = 0)

InRegion(r) ==
    /\ r.sheet = rng.sheet
    /\ rng.top <= r.top /\ r.top + r.rows <= rng.top + rng.rows
    /\ rng.left <= r.left /\ r.left + r.cols <= rng.left + rng.cols

\* C9: in rng[r, c] a negative r or c counts from the end of its axis, an r
\* outside [-rowCount, rowCount) or a c outside [-columnCount, columnCount)
\* raises IndexError, and no 2-D index yields a cell outside the Region.
C9_TupleIndex ==
    (out.op = "getitem" /\ out.key.t = "tuple") =>
        /\ (~out.key.row.slice /\ ~out.key.col.slice) =>
              LET r == out.key.row.v
                  c == out.key.col.v
                  rowOk == -rng.rows <= r /\ r < rng.rows
                  colOk == -rng.cols <= c /\ c < rng.cols
              IN  IF rowOk /\ colOk
                  THEN out.res = CellOf(rng.top + Normalized(r, rng.rows),
                                        rng.left + Normalized(c, rng.cols))
                  ELSE out.res.kind = "IndexError"
        /\ out.res.kind = "Range" => InRegion(out.res.rg)

HasStep(idx) == idx.slice /\ idx.step.some /\ idx.step.v # 1

\* C10: a slice with an explicit step other than 1, as a linear slice or on
\* either axis of a 2-D index, is rejected with ValueError("Slice steps not
\* supported.") and no Range is returned, whatever its start and stop.
C10_StepRejected ==
    out.op = "getitem" =>
        /\ (out.key.t = "slice" /\ HasStep(out.key.row))
              => out.res = Raise("ValueError", "Slice steps not supported.")
        /\ (out.key.t = "tuple" /\ (HasStep(out.key.row) \/ HasStep(out.key.col)))
              => out.res = Raise("ValueError", "Slice steps not supported.")

\* the cells rng[0], ..., rng[len(rng) - 1]
LinearCells == {GetItem(rng, IntKey(i)).rg : i \in 0..(Count(rng) - 1)}

\* C17: for 0 <= r < R and 0 <= c < C, rng[r, c] and rng[r*C + c] are the
\* same single cell (top + r, left + c); len(rng) is R * C, and the indices
\* 0 .. len(rng) - 1 reach that many different cells.
C17_RowMajor ==
    out.op = "getitem" =>
        LET R == rng.rows
            C == rng.cols
        IN  /\ (out.key.t = "tuple" /\ ~out.key.row.slice /\ ~out.key.col.slice
                   /\ out.key.row.v \in 0..(R - 1) /\ out.key.col.v \in 0..(C - 1)) =>
                  /\ out.res = CellOf(rng.top + out.key.row.v, rng.left + out.key.col.v)
                  /\ out.res = GetItem(rng, IntKey(out.key.row.v * C + out.key.col.v))
            /\ (out.key.t = "int" /\ out.key.row.v \in 0..(R * C - 1)) =>
                  /\ out.res = CellOf(rng.top + (out.key.row.v \div C),
                                      rng.left + (out.key.row.v % C))
                  /\ out.res = GetItem(rng, TupleKey(IntIdx(out.key.row.v \div C),
                                                     IntIdx(out.key.row.v % C)))
            /\ Count(rng) = R * C
            /\ Cardinality(LinearCells) = R * C

\* the first cell of the second row of a 2 x 2 Range, by its 2-D index
C17_Witness ==
    /\ out.op = "getitem" /\ out.key = TupleKey(IntIdx(1), IntIdx(0))
    /\ rng = Rng(DataSheet, 2, 2, 2, 2)
    /\ out.res = CellOf(3, 2)
    /\ out.res = GetItem(rng, IntKey(2))

\* start and stop of a slice over an axis of n positions, a missing start
\* counting as 0 and a missing stop as n
StartOf(idx) == IF idx.start.some THEN idx.start.v ELSE 0
StopOf(idx, n) == IF idx.stop.some THEN idx.stop.v ELSE n

InBoundsSlice(idx, n) ==
    /\ idx.slice /\ ~idx.step.some
    /\ 0 <= StartOf(idx) /\ StartOf(idx) < StopOf(idx, n) /\ StopOf(idx, n) <= n

\* C18: for in-bounds slices r1 < r2 and c1 < c2, a missing start counting as
\* 0 and a missing stop as the count of the axis, rng[r1:r2, c1:c2] is the
\* Range of rows top+r1 .. top+r2-1 and columns left+c1 .. left+c2-1 on the
\* sheet of rng: the whole Range for rng[:, :], one cell when both slices
\* select one position.
C18_SliceRegion ==
    (out.op = "getitem" /\ out.key.t = "tuple"
        /\ InBoundsSlice(out.key.row, rng.rows) /\ InBoundsSlice(out.key.col, rng.cols)) =>
        out.res = Res("Range", "",
                      Rng(rng.sheet,
                          rng.top + StartOf(out.key.row),
                          rng.left + StartOf(out.key.col),
                          StopOf(out.key.row, rng.rows) - StartOf(out.key.row),
                          StopOf(out.key.col, rng.cols) - StartOf(out.key.col)),
                      0, 0)

\* the second row of a 2 x 2 Range, the column slice given without bounds
C18_Witness ==
    /\ out.op = "getitem"
    /\ out.key = TupleKey(SliceIdx(Some(1), Some(2), None), SliceIdx(None, None, None))
    /\ rng = Rng(DataSheet, 2, 2, 2, 2)
    /\ out.res = Res("Range", "", Rng(DataSheet, 3, 2, 1, 2), 0, 0)

\* idx without its step when the step is an explicit 1
DropStepOne(idx) ==
    IF idx.slice /\ idx.step = Some(1) THEN [idx EXCEPT !.step = None] ELSE idx

StepOne(idx) == idx.slice /\ idx.step = Some(1)

\* C23: a slice with an explicit step of 1 is accepted: rng[a:b:1] gives what
\* rng[a:b] gives, and rng[r1:r2:1, c1:c2:1] what rng[r1:r2, c1:c2] gives.
C23_StepOneAccepted ==
    out.op = "getitem" =>
        /\ (out.key.t = "slice" /\ StepOne(out.key.row)) =>
              out.res = GetItem(rng, [out.key EXCEPT !.row = DropStepOne(@)])
        /\ (out.key.t = "tuple" /\ (StepOne(out.key.row) \/ StepOne(out.key.col))
               /\ ~HasStep(out.key.row) /\ ~HasStep(out.key.col)) =>
              out.res = GetItem(rng, [out.key EXCEPT !.row = DropStepOne(@),
                                                     !.col = DropStepOne(@)])

\* C24: for 0 <= start < stop <= len(rng), a missing start counting as 0 and
\* a missing stop as len(rng), rng[start:stop] is a Range of stop - start
\* cells, the cells rng[start], ..., rng[stop - 1], whatever the shape of
\* rng; rng[:] is the whole Range.
C24_LinearSlice ==
    (out.op = "getitem" /\ out.key.t = "slice"
        /\ InBoundsSlice(out.key.row, Count(rng))) =>
        LET start == StartOf(out.key.row)
            stop == StopOf(out.key.row, Count(rng))
        IN  /\ out.res.kind = "Range"
            /\ Count(out.res.rg) = stop - start
            /\ {Cell(out.res.rg.sheet, p[1], p[2]) : p \in CellsOf(out.res.rg)}
                   = {GetItem(rng, IntKey(i)).rg : i \in start..(stop - 1)}

\* C16: every Range returned by rng[i], rng[r, c], rng[a:b] and
\* rng[r1:r2, c1:c2] carries the options bag of rng.
C16_OptionsPreserved ==
    (out.op = "getitem" /\ out.res.kind = "Range") => out.options = options

\* the step is on the column slice only, next to an integer row
C10_Witness ==
    /\ out.op = "getitem" /\ out.key.t = "tuple"
    /\ ~out.key.row.slice
    /\ out.key.col = SliceIdx(Some(0), Some(1), Some(2))
    /\ out.res = Raise("ValueError", "Slice steps not supported.")

====
